---- MODULE Spec2Model ----
(***************************************************************************)
(* masplit (src/src/masplit.cpp): split every cell of a matrix of          *)
(* delimited strings, convert the tokens to floats and reduce each cell to *)
(* a count or to one selected record.                                      *)
(*                                                                         *)
(* A call is modelled statement by statement: Begin is the prologue        *)
(* (lines 88-105), one Cell* action is one pass of the loop body for the   *)
(* cell (i,j) including the loop increment (lines 107-156), Finish is the  *)
(* final return (line 158).  Again is the caller invoking masplit a second *)
(* time with the same arguments.                                           *)
(***************************************************************************)
EXTENDS Integers, Sequences, FiniteSets, TLC

VARIABLES
    myMat,       \* the StringMatrix argument (an R object shared with the caller)
    delim,       \* the split character delim[0]
    count,       \* argument count
    recordArg,   \* argument record as passed by the caller
    sort,        \* argument sort
    decreasing,  \* argument decreasing
    record,      \* the local copy of record (decremented at line 102)
    retMat,      \* the NumericMatrix under construction
    naMat,       \* the 1x1 NA matrix
    i, j,        \* loop counters
    pc,          \* "entry", "loop", "done"
    returned,    \* which matrix the executed return statement named
    result,      \* the value handed back to the caller
    touched,     \* cells whose text has been split and converted
    written,     \* cells of retMat that have been assigned
    run,         \* number of the current invocation
    prev         \* what the previous invocation returned

vars == <<myMat, delim, count, recordArg, sort, decreasing, record, retMat,
          naMat, i, j, pc, returned, result, touched, written, run, prev>>

-----------------------------------------------------------------------------
(* Bounds of the model.                                                    *)
MaxLen == 1          \* longest cell text in a grid of several cells
MaxCellLen == 4      \* longest cell text in a 1x1 grid
MaxRecord == 3       \* largest record index passed

Alphabet == {"1", "2", "-", ","}
Delims == {",", "-"}
Shapes == {<<0, 0>>, <<1, 1>>, <<1, 2>>, <<2, 1>>}
DimNames == {"NULL", "named"}
CountVals == {0, 1}
SortVals == {0, 1}
DecreasingVals == {0, 1, 2}
RecordVals == (0 - 1) .. MaxRecord

-----------------------------------------------------------------------------
(* Values.                                                                 *)
NA_STRING == [na |-> TRUE, s |-> <<>>]
Text(s) == [na |-> FALSE, s |-> s]
NA_REAL == [na |-> TRUE, v |-> 0]
Num(x) == [na |-> FALSE, v |-> x]

Texts(n) == UNION {[1..k -> Alphabet] : k \in 0..n}
Cells(n) == {NA_STRING} \cup {Text(s) : s \in Texts(n)}

Pos(nr, nc) == (0..(nr - 1)) \X (0..(nc - 1))

Grids(n) ==
    UNION {{[nrow |-> sh[1], ncol |-> sh[2], dimnames |-> d, data |-> f] :
              f \in [Pos(sh[1], sh[2]) -> Cells(n)], d \in DimNames} : sh \in Shapes}

OneCellGrids(n) ==
    {[nrow |-> 1, ncol |-> 1, dimnames |-> d, data |-> f] :
        f \in [Pos(1, 1) -> Cells(n)], d \in DimNames}

\* Rcpp::NumericMatrix m(nr, nc): zero filled, no attributes.
NumericMatrix(nr, nc) ==
    [nrow |-> nr, ncol |-> nc, dimnames |-> "NULL",
     data |-> [p \in Pos(nr, nc) |-> Num(0)]]

NoValue == [nrow |-> 0, ncol |-> 0, dimnames |-> "none", data |-> <<>>]

-----------------------------------------------------------------------------
(* Helpers of the source.                                                  *)
greater(a, b) == a > b
lesser(a, b) == a < b

IsDigit(c) == c \in {"1", "2"}
DigitVal(c) == IF c = "1" THEN 1 ELSE 2

\* The digits of s from position k on, accumulated in base 10.
RECURSIVE Digits(_, _, _, _)
Digits(s, k, acc, n) ==
    IF k <= Len(s) /\ IsDigit(s[k])
    THEN Digits(s, k + 1, 10 * acc + DigitVal(s[k]), n + 1)
    ELSE [v |-> acc, n |-> n]

\* ss0 >> f on one token: an optional sign, then digits; extraction stops at
\* the first character that fits neither.  Without a digit the extraction
\* fails and the slot holds 0.
ParseFloat(tok) ==
    LET neg == Len(tok) >= 1 /\ tok[1] = "-"
        d == Digits(tok, IF neg THEN 2 ELSE 1, 0, 0)
    IN  IF d.n = 0 THEN [ok |-> FALSE, v |-> 0]
        ELSE [ok |-> TRUE, v |-> IF neg THEN 0 - d.v ELSE d.v]

\* A conversion that drops the tokens that fail instead of keeping their slot.
str_vec_drop_failed(str_vec) ==
    LET kept == SelectSeq(str_vec, LAMBDA t : ParseFloat(t).ok)
    IN  [k \in 1..Len(kept) |-> ParseFloat(kept[k]).v]

\* Lines 19-34: one slot per token, initialised to 0, overwritten by the
\* extraction when it succeeds.
str_vec_to_float_vec(str_vec) ==
    [k \in 1..Len(str_vec) |-> ParseFloat(str_vec[k]).v]

RECURSIVE strsplitFrom(_, _, _, _)
strsplitFrom(s, k, cur, split) ==
    IF k > Len(s) THEN <<cur>>
    ELSE IF s[k] = split
         THEN <<cur>> \o strsplitFrom(s, k + 1, <<>>, split)
         ELSE strsplitFrom(s, k + 1, Append(cur, s[k]), split)

strsplit(s, split) == strsplitFrom(s, 1, <<>>, split)

\* x placed into the sorted sequence s, ahead of the first element it precedes.
RECURSIVE Insert(_, _, _)
Insert(x, s, desc) ==
    IF s = <<>> THEN <<x>>
    ELSE IF (IF desc THEN greater(x, Head(s)) ELSE lesser(x, Head(s)))
         THEN <<x>> \o s
         ELSE <<Head(s)>> \o Insert(x, Tail(s), desc)

RECURSIVE std_sort(_, _)
std_sort(v, desc) ==
    IF v = <<>> THEN <<>> ELSE Insert(Head(v), std_sort(Tail(v), desc), desc)

\* The comparator of the other direction.
SortDecreasingSwapped(v) == std_sort(v, FALSE)

\* Line 131.
SortDecreasing(v) == std_sort(v, TRUE)
\* Line 133.
SortIncreasing(v) == std_sort(v, FALSE)

\* A check that lets record = 0 through.
RecordTooSmallOffByOne(r) == r < 0

\* Line 96.
RecordTooSmall(r) == r < 1

\* A selection that leaves the zero of the fresh matrix in place of NA.
SelectRecordZero(fv, rec) ==
    IF rec + 1 > Len(fv) THEN Num(0) ELSE Num(fv[rec + 1])

\* Lines 141-145, rec being the zero based record.
SelectRecord(fv, rec) ==
    IF rec + 1 > Len(fv) THEN NA_REAL ELSE Num(fv[rec + 1])

\* A count of the delimiters instead of the records.
CountRecordsDelims(fv) == Num(Len(fv) - 1)

\* Line 125.
CountRecords(fv) == Num(Len(fv))

\* A missing cell left at the zero of the fresh matrix.
MissingOutZero(cell) == Num(0)

\* Line 148.
MissingOut(cell) == NA_REAL

-----------------------------------------------------------------------------
(* The call.                                                               *)
InitCall(grids) ==
    /\ myMat \in grids
    /\ delim \in Delims
    /\ count \in CountVals
    /\ recordArg \in RecordVals
    /\ sort \in SortVals
    /\ decreasing \in DecreasingVals
    /\ record = recordArg
    /\ retMat = NoValue
    /\ naMat = NoValue
    /\ i = 0
    /\ j = 0
    /\ pc = "entry"
    /\ returned = "none"
    /\ result = NoValue
    /\ touched = {}
    /\ written = {}
    /\ run = 1
    /\ prev = NoValue

Init == InitCall(Grids(MaxLen) \cup OneCellGrids(MaxCellLen))

args == <<myMat, delim, count, recordArg, sort, decreasing>>

Return(which, m) ==
    /\ pc' = "done"
    /\ returned' = which
    /\ result' = m

\* Lines 88-105.
Begin ==
    /\ pc = "entry"
    /\ retMat' = [NumericMatrix(myMat.nrow, myMat.ncol) EXCEPT !.dimnames = myMat.dimnames]
    /\ naMat' = [NumericMatrix(1, 1) EXCEPT !.data[<<0, 0>>] = NA_REAL]
    /\ IF RecordTooSmall(record)
       THEN /\ Return("naMat", naMat')
            /\ UNCHANGED <<record, i, j>>
       ELSE /\ record' = record - 1
            /\ i' = IF myMat.ncol = 0 THEN myMat.nrow ELSE 0
            /\ j' = 0
            /\ pc' = "loop"
            /\ UNCHANGED <<returned, result>>
    /\ UNCHANGED <<args, touched, written, run, prev>>

InLoop == pc = "loop" /\ i < retMat.nrow /\ j < retMat.ncol

\* retMat(i,j) = x, then j++ and, at the end of the row, i++.
Store(x) ==
    /\ retMat' = [retMat EXCEPT !.data[<<i, j>>] = x]
    /\ written' = written \cup {<<i, j>>}
    /\ IF j + 1 < retMat.ncol
       THEN i' = i /\ j' = j + 1
       ELSE i' = i + 1 /\ j' = 0
    /\ UNCHANGED <<pc, returned, result>>

float_vec == str_vec_to_float_vec(strsplit(myMat.data[<<i, j>>].s, delim))

\* Lines 147-150.
CellNA ==
    /\ InLoop
    /\ myMat.data[<<i, j>>] = NA_STRING
    /\ Store(MissingOut(myMat.data[<<i, j>>]))
    /\ UNCHANGED <<args, record, naMat, touched, run, prev>>

\* Lines 110-126.
CellCount ==
    /\ InLoop
    /\ myMat.data[<<i, j>>] # NA_STRING
    /\ count = 1
    /\ touched' = touched \cup {<<i, j>>}
    /\ Store(CountRecords(float_vec))
    /\ UNCHANGED <<args, record, naMat, run, prev>>

\* Lines 110-120, 129-137: 'decreasing' is neither 0 nor 1.
CellBadDecreasing ==
    /\ InLoop
    /\ myMat.data[<<i, j>>] # NA_STRING
    /\ count # 1
    /\ sort = 1
    /\ decreasing # 1
    /\ decreasing # 0
    /\ touched' = touched \cup {<<i, j>>}
    /\ Return("naMat", naMat)
    /\ UNCHANGED <<args, record, retMat, naMat, i, j, written, run, prev>>

\* Lines 110-120, 129-145.
CellSelect ==
    /\ InLoop
    /\ myMat.data[<<i, j>>] # NA_STRING
    /\ count # 1
    /\ ~(sort = 1 /\ decreasing # 1 /\ decreasing # 0)
    /\ touched' = touched \cup {<<i, j>>}
    /\ LET sorted == IF sort = 1
                     THEN IF decreasing = 1 THEN SortDecreasing(float_vec)
                          ELSE SortIncreasing(float_vec)
                     ELSE float_vec
       IN  Store(SelectRecord(sorted, record))
    /\ UNCHANGED <<args, record, naMat, run, prev>>

\* A return one row early.
FinishEarly ==
    /\ pc = "loop"
    /\ i >= retMat.nrow - 1
    /\ Return("retMat", retMat)
    /\ UNCHANGED <<args, record, retMat, naMat, i, j, touched, written, run, prev>>

\* Line 158.
Finish ==
    /\ pc = "loop"
    /\ i >= retMat.nrow
    /\ Return("retMat", retMat)
    /\ UNCHANGED <<args, record, retMat, naMat, i, j, touched, written, run, prev>>

\* A second call that finds record as the first call left it.
AgainStale ==
    /\ pc = "done"
    /\ run = 1
    /\ run' = 2
    /\ prev' = result
    /\ record' = record
    /\ retMat' = NoValue
    /\ naMat' = NoValue
    /\ i' = 0
    /\ j' = 0
    /\ pc' = "entry"
    /\ returned' = "none"
    /\ result' = NoValue
    /\ touched' = {}
    /\ written' = {}
    /\ UNCHANGED args

\* The caller invokes masplit once more with the arguments of the first call
\* (lines 80-86: every parameter is passed by value, every local is fresh).
Again ==
    /\ pc = "done"
    /\ run = 1
    /\ run' = 2
    /\ prev' = result
    /\ record' = recordArg
    /\ retMat' = NoValue
    /\ naMat' = NoValue
    /\ i' = 0
    /\ j' = 0
    /\ pc' = "entry"
    /\ returned' = "none"
    /\ result' = NoValue
    /\ touched' = {}
    /\ written' = {}
    /\ UNCHANGED args

Next == Begin \/ CellNA \/ CellCount \/ CellBadDecreasing \/ CellSelect \/ Finish

NextTwice == Next \/ Again

Spec == Init /\ [][Next]_vars
SpecTwice == Init /\ [][NextTwice]_vars

-----------------------------------------------------------------------------
(* Vocabulary of the properties.                                           *)
Done == pc = "done"
AllPos == Pos(myMat.nrow, myMat.ncol)
Missing(p) == myMat.data[p] = NA_STRING
Tokens(p) == strsplit(myMat.data[p].s, delim)
Parsed(p) == str_vec_to_float_vec(Tokens(p))
Failed(p) == {k \in 1..Len(Tokens(p)) : ~ParseFloat(Tokens(p)[k]).ok}
ZeroFilled(p) ==
    [k \in 1..Len(Tokens(p)) |->
        IF k \in Failed(p) THEN 0 ELSE ParseFloat(Tokens(p)[k]).v]

Sentinel ==
    [nrow |-> 1, ncol |-> 1, dimnames |-> "NULL",
     data |-> [p \in Pos(1, 1) |-> NA_REAL]]
ReturnedSentinel == returned = "naMat" /\ result = Sentinel
ReturnedGrid ==
    /\ returned = "retMat"
    /\ result.nrow = myMat.nrow
    /\ result.ncol = myMat.ncol
    /\ written = AllPos
ValidConfig == recordArg >= 1 /\ decreasing \in {0, 1}

\* x is what stands at position k once fv is put in non-increasing order.
IsKthLargest(fv, k, x) ==
    /\ \E m \in 1..Len(fv) : fv[m] = x
    /\ Cardinality({m \in 1..Len(fv) : fv[m] > x}) < k
    /\ k <= Cardinality({m \in 1..Len(fv) : fv[m] >= x})

\* x is what stands at position k once fv is put in non-decreasing order.
IsKthSmallest(fv, k, x) ==
    /\ \E m \in 1..Len(fv) : fv[m] = x
    /\ Cardinality({m \in 1..Len(fv) : fv[m] < x}) < k
    /\ k <= Cardinality({m \in 1..Len(fv) : fv[m] <= x})

IsMax(fv, x) ==
    /\ \E m \in 1..Len(fv) : fv[m] = x
    /\ \A m \in 1..Len(fv) : fv[m] <= x

\* r is the k-th record of fv under the sort settings of the call.
IsSelected(fv, k, r) ==
    /\ ~r.na
    /\ sort # 1 => r.v = fv[k]
    /\ (sort = 1 /\ decreasing = 1) => IsKthLargest(fv, k, r.v)
    /\ (sort = 1 /\ decreasing = 0) => IsKthSmallest(fv, k, r.v)

\* The cells the loop has passed when it stands at (i,j).
Passed == {p \in AllPos : p[1] < i \/ (p[1] = i /\ p[2] < j)}

-----------------------------------------------------------------------------
\* C1: a call whose 'decreasing' is neither 0 nor 1 returns the 1x1 failure
\* sentinel whatever the grid, mode and sort setting, and no cell has been
\* split, converted or written when that is decided.
C1_DecreasingCheckedFirst ==
    decreasing \notin {0, 1} =>
        /\ touched = {}
        /\ written = {}
        /\ Done => ReturnedSentinel

\* C2 as stated: in count mode the result of a non-missing cell is its number
\* of tokens for every sort, decreasing and record, record < 1 included.
C2_CountForEveryRecord ==
    (Done /\ count = 1) =>
        \A p \in AllPos : ~Missing(p) =>
            /\ returned = "retMat"
            /\ result.data[p] = Num(Len(Tokens(p)))

\* C2 as amended: in count mode with record >= 1 the result of a non-missing
\* cell is its number of tokens, for every sort and every decreasing (values
\* other than 0 and 1 included) and every record >= 1.
C2_CountForValidRecord ==
    (Done /\ count = 1 /\ recordArg >= 1) =>
        \A p \in AllPos : ~Missing(p) =>
            /\ returned = "retMat"
            /\ result.data[p] = Num(Len(Tokens(p)))

C2_Witness ==
    /\ Done
    /\ count = 1
    /\ recordArg = 3
    /\ sort = 1
    /\ decreasing = 2
    /\ returned = "retMat"
    /\ \E p \in AllPos : ~Missing(p) /\ Len(Tokens(p)) = 2 /\ result.data[p] = Num(2)

\* C3: with a valid configuration no grid makes masplit return a value equal
\* to the 1x1 not-available sentinel.
C3_SentinelDistinct ==
    (Done /\ ValidConfig) => result # Sentinel

\* C4: a call with record < 1 returns the 1x1 failure sentinel and never
\* enters the cell loop: no cell is split, converted or written.
C4_RecordBelowOne ==
    recordArg < 1 =>
        /\ pc \in {"entry", "done"}
        /\ touched = {}
        /\ written = {}
        /\ Done => ReturnedSentinel

C4_Witness ==
    /\ Done
    /\ recordArg < 1
    /\ ReturnedSentinel
    /\ Cardinality(AllPos) = 2
    /\ \E p \in AllPos : ~Missing(p)

\* C5: a missing input cell is never split or converted, and in every grid
\* returned by the final return it is missing in the output, for every mode,
\* sort, decreasing and record.
C5_MissingStaysMissing ==
    /\ \A p \in AllPos : Missing(p) => p \notin touched
    /\ (Done /\ returned = "retMat") =>
           \A p \in AllPos : Missing(p) => result.data[p] = NA_REAL

C5_Witness ==
    /\ Done
    /\ returned = "retMat"
    /\ \E p, q \in AllPos :
           /\ Missing(p)
           /\ result.data[p] = NA_REAL
           /\ ~Missing(q)
           /\ ~result.data[q].na
           /\ q \in touched

\* C6: in select mode with 1 <= record <= number of tokens, the result of a
\* non-missing cell is the record-th element of its parsed sequence: in token
\* order without sort, in non-increasing order with sort and decreasing = 1
\* (record 1 is the maximum), in non-decreasing order with sort and
\* decreasing = 0 (the last record is the maximum).
C6_SelectsKth ==
    (Done /\ returned = "retMat" /\ count = 0 /\ recordArg >= 1) =>
        \A p \in AllPos : (~Missing(p) /\ recordArg <= Len(Parsed(p))) =>
            /\ IsSelected(Parsed(p), recordArg, result.data[p])
            /\ (sort = 1 /\ decreasing = 1 /\ recordArg = 1) =>
                   IsMax(Parsed(p), result.data[p].v)
            /\ (sort = 1 /\ decreasing = 0 /\ recordArg = Len(Parsed(p))) =>
                   IsMax(Parsed(p), result.data[p].v)

C6_Witness ==
    /\ Done
    /\ returned = "retMat"
    /\ count = 0
    /\ sort = 1
    /\ decreasing = 1
    /\ recordArg = 1
    /\ \E p \in AllPos :
           /\ ~Missing(p)
           /\ Len(Parsed(p)) = 3
           /\ Parsed(p)[1] < Parsed(p)[2]
           /\ Parsed(p)[3] < Parsed(p)[2]
           /\ result.data[p] = Num(Parsed(p)[2])

C8_CompletesOnceRecordChecked ==
    recordArg >= 1 =>
        /\ pc = "loop" => written = Passed
        /\ Done => ReturnedGrid

\* C8 as amended: once the configuration is valid (record >= 1 and decreasing
\* 0 or 1) the call passes every cell in turn, stands either at a cell still
\* to be processed or at the final return, and ends in the final return with
\* a grid of the input's rows x cols, every cell assigned.
C8_CompletesOnceValid ==
    ValidConfig =>
        /\ pc = "loop" =>
               /\ written = Passed
               /\ returned = "none"
               /\ InLoop \/ (i = myMat.nrow /\ Passed = AllPos)
        /\ Done => (ReturnedGrid /\ i >= myMat.nrow)

C8_Witness ==
    /\ Done
    /\ ValidConfig
    /\ ReturnedGrid
    /\ Cardinality(AllPos) = 2
    /\ \E p \in AllPos : result.data[p] = NA_REAL
    /\ \E p \in AllPos : ~result.data[p].na

\* C9: a token that is no float keeps its position with the value 0: with a
\* valid configuration a cell holding such a token is counted with all its
\* tokens in count mode, is sorted and selected with 0 in that position in
\* select mode, and the call still ends in the final return with every cell
\* assigned.
C9_FailedTokenIsZero ==
    (Done /\ ValidConfig) =>
        \A p \in AllPos : (~Missing(p) /\ Failed(p) # {}) =>
            /\ ReturnedGrid
            /\ count = 1 => result.data[p] = Num(Len(Tokens(p)))
            /\ (count = 0 /\ recordArg > Len(Tokens(p))) => result.data[p] = NA_REAL
            /\ (count = 0 /\ recordArg <= Len(Tokens(p))) =>
                   IsSelected(ZeroFilled(p), recordArg, result.data[p])
            /\ (count = 0 /\ sort = 0 /\ recordArg \in Failed(p)) =>
                   result.data[p] = Num(0)

C9_Witness ==
    /\ Done
    /\ ValidConfig
    /\ count = 0
    /\ sort = 1
    /\ decreasing = 1
    /\ recordArg = 1
    /\ returned = "retMat"
    /\ \E p \in AllPos :
           /\ ~Missing(p)
           /\ Len(Tokens(p)) = 2
           /\ Failed(p) = {2}
           /\ ParseFloat(Tokens(p)[1]).v < 0
           /\ result.data[p] = Num(0)

====
